---- MODULE Spec2Model ----
(***************************************************************************)
(* Model of tgateway's report-integrity verifier                           *)
(* (src/tgateway/integrity.py, validate_report_integrity).                 *)
(*                                                                         *)
(* A Python str is a sequence of code points, a bytes object a sequence   *)
(* of integers 0..255.  A verification call is a little process: it reads  *)
(* the wall clock, checks freshness, decodes the body, computes the        *)
(* expected signature and compares.  Each of these is one action so that   *)
(* calls of several threads/tasks can interleave.                          *)
(*                                                                         *)
(* Around the verifier stand the TelegramGateway client (client.py): its   *)
(* session, its requests and the fluent chain of their results; the        *)
(* webhook endpoint of the examples; the error codes of the API            *)
(* (exceptions.py); and the construction of a SendVerificationMessage      *)
(* (methods.py).  Each has its own specification over the same variables.  *)
(***************************************************************************)
EXTENDS Integers, Sequences, FiniteSets, TLC

VARIABLES
    clock,               \* time.time(), in ticks of 1/TicksPerSecond second
    pc,                  \* pc[c]: where call c stands
    access_token,        \* the arguments of call c ...
    timestamp,
    signature,
    body,
    excepted_timestamp,  \* ... and its locals, named as in the source
    post_body,
    data_check_string,
    secret_key,
    excepted_signature,
    outcome,             \* how call c ended: "None" (returned) or the exception raised
    client_access_token, \* TelegramGateway._access_token of client k
    session,             \* TelegramGateway._session of client k: "none", "open", "closed"
    posts,               \* number of requests client k has sent through its session
    hpc,                 \* where webhook_handler stands
    hreq,                \* its request: X-Request-Timestamp, X-Request-Signature, body
    verdict,             \* how gateway.validate_report_integrity ended for it
    response,            \* the status code it answers with (0: none yet)
    scope,               \* where client k stands with respect to its `async with` block
    rpc,                 \* where the task using the clients stands
    gateway,             \* the client whose make_request the task is in (0: none)
    method,              \* the TelegramGatewayMethod object at hand
    box,                 \* the TelegramGatewayResult decoded from the API's response
    result,              \* what the last call or await returned or raised
    status,              \* the RequestStatus the task holds
    kwargs,              \* the arguments of SendVerificationMessage(...)
    constructed,         \* how that construction ended
    chained,             \* the method of the RequestStatus the task called last
    canon_in,            \* two pairs (timestamp, decoded body) ...
    canon_out            \* ... and their canonical strings

verifierVars == <<clock, pc, access_token, timestamp, signature, body, excepted_timestamp,
                  post_body, data_check_string, secret_key, excepted_signature, outcome>>

clientVars == <<client_access_token, session, posts>>

hookVars == <<hpc, hreq, verdict, response>>

taskVars == <<scope, rpc, gateway, method, box, result, status>>

methodVars == <<kwargs, constructed, chained>>

canonVars == <<canon_in, canon_out>>

\* what neither the verifier nor the webhook endpoint touches
restVars == <<taskVars, methodVars, canonVars>>

\* what the statements of validate_report_integrity never touch
outerVars == <<clientVars, hookVars, restVars>>

vars == <<verifierVars, outerVars>>

args == <<access_token, timestamp, signature, body>>
locals == <<excepted_timestamp, post_body, data_check_string, secret_key,
            excepted_signature>>

-----------------------------------------------------------------------------
(* Bounds and program constants *)

\* the freshness window of line 26, in seconds
Window == 300

\* resolution of the modelled wall clock: time.time() is a float, int() truncates it
TicksPerSecond == 2

\* number of verification calls that may be in progress at once (SpecConc)
MaxCalls == 2

Calls == 1..MaxCalls

\* number of TelegramGateway objects
MaxClients == 2

Clients == 1..MaxClients

-----------------------------------------------------------------------------
(* int -> str, as the f-string of line 30 renders the timestamp *)

RECURSIVE Digits(_)
Digits(n) == IF n < 10 THEN <<48 + n>> ELSE Digits(n \div 10) \o <<48 + (n % 10)>>

IntToStr(n) == IF n < 0 THEN <<45>> \o Digits(-n) ELSE Digits(n)

-----------------------------------------------------------------------------
(* str.encode("utf-8") and bytes.decode("utf-8") *)

EncodeCodePoint(cp) ==
    IF cp < 128 THEN <<cp>>
    ELSE IF cp < 2048 THEN <<192 + (cp \div 64), 128 + (cp % 64)>>
    ELSE IF cp < 65536 THEN
        <<224 + (cp \div 4096), 128 + ((cp \div 64) % 64), 128 + (cp % 64)>>
    ELSE <<240 + (cp \div 262144), 128 + ((cp \div 4096) % 64),
           128 + ((cp \div 64) % 64), 128 + (cp % 64)>>

RECURSIVE Utf8Encode(_)
Utf8Encode(s) ==
    IF s = <<>> THEN <<>> ELSE EncodeCodePoint(Head(s)) \o Utf8Encode(Tail(s))

IsCont(b) == 128 <= b /\ b <= 191

\* number of bytes of the well-formed UTF-8 sequence b starts with, 0 if none does
SeqLen(b) ==
    IF b = <<>> THEN 0
    ELSE LET x == b[1] IN
         IF x < 128 THEN 1
         ELSE IF 194 <= x /\ x <= 223
              THEN IF Len(b) >= 2 /\ IsCont(b[2]) THEN 2 ELSE 0
         ELSE IF 224 <= x /\ x <= 239
              THEN IF /\ Len(b) >= 3 /\ IsCont(b[2]) /\ IsCont(b[3])
                      /\ (x = 224 => b[2] >= 160)
                      /\ (x = 237 => b[2] <= 159)
                   THEN 3 ELSE 0
         ELSE IF 240 <= x /\ x <= 244
              THEN IF /\ Len(b) >= 4 /\ IsCont(b[2]) /\ IsCont(b[3]) /\ IsCont(b[4])
                      /\ (x = 240 => b[2] >= 144)
                      /\ (x = 244 => b[2] <= 143)
                   THEN 4 ELSE 0
         ELSE 0

DecodeCodePoint(b, n) ==
    IF n = 1 THEN b[1]
    ELSE IF n = 2 THEN (b[1] - 192) * 64 + (b[2] - 128)
    ELSE IF n = 3 THEN (b[1] - 224) * 4096 + (b[2] - 128) * 64 + (b[3] - 128)
    ELSE (b[1] - 240) * 262144 + (b[2] - 128) * 4096 + (b[3] - 128) * 64 + (b[4] - 128)

RECURSIVE Utf8Valid(_)
Utf8Valid(b) ==
    \/ b = <<>>
    \/ /\ SeqLen(b) > 0
       /\ Utf8Valid(SubSeq(b, SeqLen(b) + 1, Len(b)))

RECURSIVE Utf8Decode(_)
Utf8Decode(b) ==
    IF b = <<>> THEN <<>>
    ELSE LET n == SeqLen(b) IN
         <<DecodeCodePoint(b, n)>> \o Utf8Decode(SubSeq(b, n + 1, Len(b)))

-----------------------------------------------------------------------------
(* hashlib.sha256 and hmac.new(..., digestmod=sha256): library functions,   *)
(* modelled as ideal hashes: deterministic, of fixed output width, and      *)
(* collision-free on the messages of the model.  A digest is the tagged    *)
(* message under Merkle-Damgard padding (a 128 byte, then zeros); a message *)
(* too long for DigestSize bytes is kept whole, so that no two collide.    *)

RECURSIVE Zeros(_)
Zeros(n) == IF n <= 0 THEN <<>> ELSE <<0>> \o Zeros(n - 1)

Pad(m, width) == m \o <<128>> \o Zeros(width - Len(m) - 1)

Unpad(m) ==
    LET last == CHOOSE i \in 0..Len(m) :
                    /\ \A j \in (i + 1)..Len(m) : m[j] = 0
                    /\ (i > 0 => m[i] # 0)
    IN  IF last > 0 /\ m[last] = 128 THEN SubSeq(m, 1, last - 1) ELSE SubSeq(m, 1, last)

\* hashlib.sha256().digest_size
DigestSize == 32

Sha256(m) == Pad(<<1>> \o m, DigestSize)

Hmac(key, msg) ==
    LET k == Unpad(key) IN Pad(<<2, Len(k)>> \o k \o msg, DigestSize)

\* .hexdigest(): two lowercase hexadecimal digits per byte
HexDigit(n) == IF n < 10 THEN 48 + n ELSE 87 + n

RECURSIVE HexDigest(_)
HexDigest(d) ==
    IF d = <<>> THEN <<>>
    ELSE <<HexDigit(Head(d) \div 16), HexDigit(Head(d) % 16)>> \o HexDigest(Tail(d))

-----------------------------------------------------------------------------
(* The statements of validate_report_integrity *)

Abs(x) == IF x < 0 THEN -x ELSE x

\* line 24: int(time.time())
IntTime == clock \div TicksPerSecond

\* the window taken exclusive of its ends
OutOfRangeExclusive(now, ts) == Abs(now - ts) >= Window

\* abs() forgotten: only timestamps from the future are turned down
OutOfRangeFutureOnly(now, ts) == ts - now > Window

\* only envelopes from the past are turned down
OutOfRangeStaleOnly(now, ts) == now - ts > Window

\* line 26: abs(excepted_timestamp - timestamp) > 300
OutOfRange(now, ts) == Abs(now - ts) > Window

\* body.decode("ascii")
DecodeRaisesAscii(b) == ~(\A i \in 1..Len(b) : b[i] < 128)

\* line 29: body.decode("utf-8") raises UnicodeDecodeError on ill-formed input
DecodeRaises(b) == ~Utf8Valid(b)

\* the separator forgotten: the decimal timestamp directly followed by the body
DataCheckStringUnseparated(ts, text) == IntToStr(ts) \o text

\* line 30: f"{timestamp}\n{post_body}"
DataCheckString(ts, post) == IntToStr(ts) \o <<10>> \o post

\* the raw token used as the HMAC key
DeriveKeyRaw(token) == Utf8Encode(token)

\* line 31: hashlib.sha256(access_token.encode("utf-8")).digest()
DeriveKey(token) == Sha256(Utf8Encode(token))

\* lines 33-37: hmac.new(key, msg=data_check_string.encode("utf-8"), sha256).hexdigest()
ExpectedSignature(key, dcs) == HexDigest(Hmac(key, Utf8Encode(dcs)))

IsAscii(s) == \A i \in 1..Len(s) : s[i] < 128

\* line 39: hmac.compare_digest on two str raises TypeError unless both are ASCII
CompareRaises(a, b) == ~IsAscii(a) \/ ~IsAscii(b)

\* line 39: hmac.compare_digest(a, b): equal length and equal characters
CompareDigest(a, b) == Len(a) = Len(b) /\ \A i \in 1..Len(a) : a[i] = b[i]

\* lines 18-40 run by one caller alone, the clock read at line 24 being `now`
Verify(token, ts, sig, b, now) ==
    IF OutOfRange(now, ts) THEN "TimestampOutOfRangeError"
    ELSE IF DecodeRaises(b) THEN "UnicodeDecodeError"
    ELSE LET expected == ExpectedSignature(DeriveKey(token),
                                           DataCheckString(ts, Utf8Decode(b)))
         IN  IF CompareRaises(sig, expected) THEN "TypeError"
             ELSE IF ~CompareDigest(sig, expected) THEN "SignatureInvalidError"
             ELSE "None"

-----------------------------------------------------------------------------
(* The inputs *)

\* the signature the sender of (secret, ts, body) computes: lowercase-hex HMAC-SHA256,
\* keyed with SHA-256 of the UTF-8 secret, of "<ts>\n<body text>"
CanonicalSignature(s, ts, b) ==
    HexDigest(Hmac(Sha256(Utf8Encode(s)),
                   Utf8Encode(IntToStr(ts) \o <<10>> \o Utf8Decode(b))))

\* str.upper()
RECURSIVE Upper(_)
Upper(s) ==
    IF s = <<>> THEN <<>>
    ELSE <<IF 97 <= Head(s) /\ Head(s) <= 122 THEN Head(s) - 32 ELSE Head(s)>>
         \o Upper(Tail(s))

\* sig[:-1] + <another hex digit>
FlipLast(s) ==
    SubSeq(s, 1, Len(s) - 1) \o <<IF s[Len(s)] = 48 THEN 49 ELSE 48>>

\* longest body of the model, in bytes
MaxBodyLen == 2

\* access tokens: "m" and "e-acute" (two bytes in UTF-8)
Secrets == {<<109>>, <<233>>}

\* claimed times: before the epoch, and one second apart around the window
Timestamps == {-1, Window, Window + 1}

\* b"", b"{}", e-acute (C3 A9), the ill-formed b"\xff", the euro sign (E2 82 AC)
Bodies ==
    {b \in {<<>>, <<123, 125>>, <<195, 169>>, <<255>>, <<226, 130, 172>>} :
        Len(b) <= MaxBodyLen}

\* malformed signatures: "", "zz", "e-acute" (not ASCII)
Malformed == {<<>>, <<122, 122>>, <<233>>}

\* the signatures tried against (s, ts, b): the right one and its near misses, the
\* malformed ones, and the right ones of the triples that differ from it in one place
SignatureChoices(s, ts, b) ==
    LET own == IF Utf8Valid(b)
               THEN LET g == CanonicalSignature(s, ts, b)
                    IN  {g, Upper(g), FlipLast(g), SubSeq(g, 1, Len(g) - 1), g \o <<48>>}
               ELSE {}
        others == {CanonicalSignature(s2, ts, b) : s2 \in IF Utf8Valid(b) THEN Secrets \ {s} ELSE {}}
                  \cup {CanonicalSignature(s, t2, b) : t2 \in IF Utf8Valid(b) THEN Timestamps \ {ts} ELSE {}}
                  \cup {CanonicalSignature(s, ts, b2) : b2 \in {x \in Bodies \ {b} : Utf8Valid(x)}}
    IN  own \cup Malformed \cup others

\* an envelope with its secret: the four arguments of a call
Envelopes ==
    UNION { { <<s, ts, g, b>> : g \in SignatureChoices(s, ts, b) } :
            <<s, ts, b>> \in Secrets \X Timestamps \X Bodies }

\* the instants the wall clock is observed at, in seconds
ClockSeconds == {0, Window - 1, Window, 2 * Window, 2 * Window + 1, 2 * Window + 2}

ClockPoints ==
    {s * TicksPerSecond + f : s \in ClockSeconds, f \in {0, TicksPerSecond - 1}}

\* the envelopes and instants of the concurrent calls (SpecConc): one good envelope,
\* the same signature under the other token, a non-ASCII signature, an ill-formed body
ConcEnvelopes ==
    LET g == CanonicalSignature(<<109>>, Window, <<123, 125>>)
    IN  { <<(<<109>>), Window, g, (<<123, 125>>)>>,
          <<(<<233>>), Window, g, (<<123, 125>>)>>,
          <<(<<109>>), Window, (<<233>>), (<<123, 125>>)>>,
          <<(<<109>>), Window, g, (<<255>>)>> }

ConcClockPoints ==
    {s * TicksPerSecond + f : s \in {0, Window, 2 * Window + 1},
                              f \in {0, TicksPerSecond - 1}}

-----------------------------------------------------------------------------
(* The state machine *)

InitVerifier ==
    /\ clock = 0
    /\ pc = [c \in Calls |-> "idle"]
    /\ access_token = [c \in Calls |-> <<>>]
    /\ timestamp = [c \in Calls |-> 0]
    /\ signature = [c \in Calls |-> <<>>]
    /\ body = [c \in Calls |-> <<>>]
    /\ excepted_timestamp = [c \in Calls |-> 0]
    /\ post_body = [c \in Calls |-> <<>>]
    /\ data_check_string = [c \in Calls |-> <<>>]
    /\ secret_key = [c \in Calls |-> <<>>]
    /\ excepted_signature = [c \in Calls |-> <<>>]
    /\ outcome = [c \in Calls |-> "none yet"]

NoRequest == [timestamp |-> 0, signature |-> <<>>, body |-> <<>>]

\* no TelegramGateway has been constructed
InitClient ==
    /\ client_access_token = [k \in Clients |-> <<>>]
    /\ session = [k \in Clients |-> "none"]
    /\ posts = [k \in Clients |-> 0]

\* no webhook request is being handled
InitHook ==
    /\ hpc = "idle"
    /\ hreq = NoRequest
    /\ verdict = "none yet"
    /\ response = 0

\* a method object, a response and a result that are not there
NoMethod == [api |-> "none", client |-> 0]
NoBox == [has_error |-> FALSE, error |-> <<>>, result |-> "none yet",
          delivery_status |-> "None"]
NoResult == [how |-> "none yet", class |-> "None", client |-> 0, error_code |-> <<>>,
             endpoint |-> "none", value |-> 0]
NoStatus == [held |-> FALSE, client |-> 0, delivery_status |-> "None"]

\* no task uses a client
InitTask ==
    /\ scope = [k \in Clients |-> "none"]
    /\ rpc = "idle"
    /\ gateway = 0
    /\ method = NoMethod
    /\ box = NoBox
    /\ result = NoResult
    /\ status = NoStatus

NoKwargs == [code |-> <<>>, has_code |-> FALSE, code_length |-> 0, has_code_length |-> FALSE,
             callback_url |-> <<>>, has_callback_url |-> FALSE,
             payload |-> <<>>, has_payload |-> FALSE, ttl |-> 0, has_ttl |-> FALSE]

\* no SendVerificationMessage is being constructed
InitMethods ==
    /\ kwargs = NoKwargs
    /\ constructed = "none yet"
    /\ chained = "none"

\* the task moves on: the record of its last call on a RequestStatus is dropped
ForgetChain ==
    /\ kwargs' = NoKwargs
    /\ constructed' = "none yet"
    /\ chained' = "none"

\* no canonical string is being built
InitCanon ==
    /\ canon_in = <<>>
    /\ canon_out = <<>>

InitRest == InitTask /\ InitMethods /\ InitCanon

Init ==
    /\ InitVerifier
    /\ InitClient
    /\ InitHook
    /\ InitRest

\* time passes: the wall clock moves on to a later instant
Tick(points) ==
    /\ \E w \in points : w > clock /\ clock' = w
    /\ UNCHANGED <<pc, args, locals, outcome>>
    /\ UNCHANGED outerVars

\* lines 18-23: the frame of a call with the envelope e is set up
Enter(c, e) ==
    /\ pc[c] = "idle"
    /\ access_token' = [access_token EXCEPT ![c] = e[1]]
    /\ timestamp' = [timestamp EXCEPT ![c] = e[2]]
    /\ signature' = [signature EXCEPT ![c] = e[3]]
    /\ body' = [body EXCEPT ![c] = e[4]]
    /\ pc' = [pc EXCEPT ![c] = "clock"]
    /\ UNCHANGED <<clock, locals, outcome>>

\* lines 18-23: a caller enters validate_report_integrity with the envelope e
Begin(c, e) ==
    /\ Enter(c, e)
    /\ UNCHANGED outerVars

\* line 24
ReadClock(c) ==
    /\ pc[c] = "clock"
    /\ excepted_timestamp' = [excepted_timestamp EXCEPT ![c] = IntTime]
    /\ pc' = [pc EXCEPT ![c] = "fresh"]
    /\ UNCHANGED <<clock, args, post_body, data_check_string, secret_key,
                   excepted_signature, outcome>>
    /\ UNCHANGED outerVars

\* lines 26-27
CheckFresh(c) ==
    /\ pc[c] = "fresh"
    /\ IF OutOfRange(excepted_timestamp[c], timestamp[c])
       THEN /\ outcome' = [outcome EXCEPT ![c] = "TimestampOutOfRangeError"]
            /\ pc' = [pc EXCEPT ![c] = "done"]
       ELSE /\ pc' = [pc EXCEPT ![c] = "decode"]
            /\ UNCHANGED outcome
    /\ UNCHANGED <<clock, args, locals>>
    /\ UNCHANGED outerVars

\* line 29
Decode(c) ==
    /\ pc[c] = "decode"
    /\ IF DecodeRaises(body[c])
       THEN /\ outcome' = [outcome EXCEPT ![c] = "UnicodeDecodeError"]
            /\ pc' = [pc EXCEPT ![c] = "done"]
            /\ UNCHANGED post_body
       ELSE /\ post_body' = [post_body EXCEPT ![c] = Utf8Decode(body[c])]
            /\ pc' = [pc EXCEPT ![c] = "sign"]
            /\ UNCHANGED outcome
    /\ UNCHANGED <<clock, args, excepted_timestamp, data_check_string, secret_key,
                   excepted_signature>>
    /\ UNCHANGED outerVars

\* a key cached across calls: the key another call has derived is reused
SecretKeyShared(c) ==
    IF \E d \in Calls \ {c} : pc[d] \in {"compare", "done"}
    THEN secret_key[CHOOSE d \in Calls \ {c} : pc[d] \in {"compare", "done"}]
    ELSE DeriveKey(access_token[c])

\* line 31: the key call c signs with
SecretKey(c) == DeriveKey(access_token[c])

\* lines 30-37
ComputeSignature(c) ==
    /\ pc[c] = "sign"
    /\ LET dcs == DataCheckString(timestamp[c], post_body[c])
           key == SecretKey(c)
       IN  /\ data_check_string' = [data_check_string EXCEPT ![c] = dcs]
           /\ secret_key' = [secret_key EXCEPT ![c] = key]
           /\ excepted_signature' =
                  [excepted_signature EXCEPT ![c] = ExpectedSignature(key, dcs)]
    /\ pc' = [pc EXCEPT ![c] = "compare"]
    /\ UNCHANGED <<clock, args, excepted_timestamp, post_body, outcome>>
    /\ UNCHANGED outerVars

\* a replay cache: a signature another call has accepted is not accepted again
SignatureMatchesOnce(c) ==
    /\ CompareDigest(signature[c], excepted_signature[c])
    /\ ~\E d \in Calls \ {c} :
            pc[d] = "done" /\ outcome[d] = "None" /\ signature[d] = signature[c]

\* line 39: the verdict of the comparison of call c
SignatureMatches(c) == CompareDigest(signature[c], excepted_signature[c])

\* lines 39-40, and the return that follows
Compare(c) ==
    /\ pc[c] = "compare"
    /\ outcome' = [outcome EXCEPT ![c] =
                      IF CompareRaises(signature[c], excepted_signature[c])
                      THEN "TypeError"
                      ELSE IF ~SignatureMatches(c) THEN "SignatureInvalidError"
                      ELSE "None"]
    /\ pc' = [pc EXCEPT ![c] = "done"]
    /\ UNCHANGED <<clock, args, locals>>
    /\ UNCHANGED outerVars

\* the frame of a finished call is dropped
Leave(c) ==
    /\ pc[c] = "done"
    /\ pc' = [pc EXCEPT ![c] = "idle"]
    /\ access_token' = [access_token EXCEPT ![c] = <<>>]
    /\ timestamp' = [timestamp EXCEPT ![c] = 0]
    /\ signature' = [signature EXCEPT ![c] = <<>>]
    /\ body' = [body EXCEPT ![c] = <<>>]
    /\ excepted_timestamp' = [excepted_timestamp EXCEPT ![c] = 0]
    /\ post_body' = [post_body EXCEPT ![c] = <<>>]
    /\ data_check_string' = [data_check_string EXCEPT ![c] = <<>>]
    /\ secret_key' = [secret_key EXCEPT ![c] = <<>>]
    /\ excepted_signature' = [excepted_signature EXCEPT ![c] = <<>>]
    /\ outcome' = [outcome EXCEPT ![c] = "none yet"]
    /\ UNCHANGED clock

\* the caller has taken the outcome: the frame of the call is gone
Return(c) ==
    /\ Leave(c)
    /\ UNCHANGED outerVars

\* one caller, one call at a time, every envelope and instant of the model
Next ==
    \/ Tick(ClockPoints)
    \/ \E e \in Envelopes : Begin(1, e)
    \/ ReadClock(1)
    \/ CheckFresh(1)
    \/ Decode(1)
    \/ ComputeSignature(1)
    \/ Compare(1)
    \/ Return(1)

Spec == Init /\ [][Next]_vars

\* up to MaxCalls callers at once, their statements interleaved in any order
NextConc ==
    \/ Tick(ConcClockPoints)
    \/ \E c \in Calls :
        \/ \E e \in ConcEnvelopes : Begin(c, e)
        \/ ReadClock(c)
        \/ CheckFresh(c)
        \/ Decode(c)
        \/ ComputeSignature(c)
        \/ Compare(c)
        \/ Return(c)

SpecConc == Init /\ [][NextConc]_vars

-----------------------------------------------------------------------------
(* Properties *)

Done(c) == pc[c] = "done"

\* the clock value call c read is within the window of its timestamp
InWindow(c) == Abs(excepted_timestamp[c] - timestamp[c]) <= Window

\* the supplied signature of call c is the sender's signature of its (token, ts, body)
Signed(c) ==
    /\ Utf8Valid(body[c])
    /\ signature[c] = CanonicalSignature(access_token[c], timestamp[c], body[c])

\* C1: for a UTF-8 body, a call returns without raising if and only if the clock value
\* it read is within 300 s of the timestamp and the supplied signature equals the
\* lowercase-hex HMAC-SHA256, keyed with SHA-256 of the UTF-8 secret, of
\* "<timestamp>\n<decoded body>".
C1_AcceptIffFreshAndSigned ==
    \A c \in Calls :
        Done(c) /\ Utf8Valid(body[c]) =>
            (outcome[c] = "None" <=> InWindow(c) /\ Signed(c))

\* a call with a two-byte secret and a two-byte body character was accepted
C1_Witness ==
    /\ Done(1) /\ outcome[1] = "None"
    /\ access_token[1] = <<233>> /\ body[1] = <<195, 169>>

\* C2: with a correct signature a call is accepted at a distance of exactly 300 s on
\* either side, and ends TimestampOutOfRangeError at 301 s or more on either side.
C2_BoundaryInclusive ==
    \A c \in Calls :
        Done(c) /\ Signed(c) =>
            LET d == excepted_timestamp[c] - timestamp[c]
            IN  /\ (d = Window \/ d = -Window => outcome[c] = "None")
                /\ (d > Window \/ d < -Window =>
                        outcome[c] = "TimestampOutOfRangeError")

\* a correctly signed report of a timestamp 300 s ahead of the clock was accepted
C2_Witness ==
    /\ Done(1) /\ Signed(1) /\ outcome[1] = "None"
    /\ excepted_timestamp[1] - timestamp[1] = -Window

\* C3: in the window and with a UTF-8 body, every supplied signature that differs from
\* the computed one ends SignatureInvalidError.
C3_MismatchIsSignatureInvalid ==
    \A c \in Calls :
        Done(c) /\ InWindow(c) /\ Utf8Valid(body[c]) /\ ~Signed(c) =>
            outcome[c] = "SignatureInvalidError"

\* C4: with a UTF-8 body and an ASCII signature a call ends in a return,
\* TimestampOutOfRangeError or SignatureInvalidError, and in nothing else.
C4_OnlyExpectedRejections ==
    \A c \in Calls :
        Done(c) /\ Utf8Valid(body[c]) /\ IsAscii(signature[c]) =>
            outcome[c] \in {"None", "TimestampOutOfRangeError", "SignatureInvalidError"}

\* a non-hexadecimal ASCII signature over a multi-byte UTF-8 body was turned down
C4_Witness ==
    /\ Done(1) /\ outcome[1] = "SignatureInvalidError"
    /\ signature[1] = <<122, 122>> /\ body[1] = <<195, 169>>

\* C5: in the window, a body that is not UTF-8 ends SignatureInvalidError.
C5_IllFormedBodyIsSignatureInvalid ==
    \A c \in Calls :
        Done(c) /\ InWindow(c) /\ ~Utf8Valid(body[c]) =>
            outcome[c] = "SignatureInvalidError"

IsLowerHex(s) ==
    /\ s # <<>>
    /\ \A i \in 1..Len(s) : (48 <= s[i] /\ s[i] <= 57) \/ (97 <= s[i] /\ s[i] <= 102)

\* C6: in the window and with a UTF-8 body, a signature that is not lowercase
\* hexadecimal (empty, non-hex letters, non-ASCII) ends SignatureInvalidError.
C6_MalformedSignatureIsSignatureInvalid ==
    \A c \in Calls :
        Done(c) /\ InWindow(c) /\ Utf8Valid(body[c]) /\ ~IsLowerHex(signature[c]) =>
            outcome[c] = "SignatureInvalidError"

SameCall(c, d) ==
    /\ access_token[c] = access_token[d]
    /\ timestamp[c] = timestamp[d]
    /\ signature[c] = signature[d]
    /\ body[c] = body[d]
    /\ excepted_timestamp[c] = excepted_timestamp[d]

\* C7: two calls with the same secret, timestamp, signature, body and clock value end
\* the same way, whatever calls ran before or run beside them.
C7_Deterministic ==
    \A c, d \in Calls :
        Done(c) /\ Done(d) /\ SameCall(c, d) => outcome[c] = outcome[d]

\* the same good envelope was verified twice and accepted twice
C7_Witness ==
    \E c, d \in Calls :
        /\ c # d /\ Done(c) /\ Done(d) /\ SameCall(c, d)
        /\ outcome[c] = "None" /\ outcome[d] = "None"

\* C8: however the statements of concurrent calls interleave, a call ends as it would
\* have ended run alone with the clock value it read.
C8_Isolated ==
    \A c \in Calls :
        Done(c) =>
            outcome[c] = Verify(access_token[c], timestamp[c], signature[c], body[c],
                                excepted_timestamp[c])

\* a call under one token was turned down while a call under the other token, which
\* read another clock value, stood between its signature computation and its comparison
C8_Witness ==
    \E c, d \in Calls :
        /\ Done(c) /\ outcome[c] = "SignatureInvalidError"
        /\ pc[d] = "compare"
        /\ access_token[c] # access_token[d]
        /\ excepted_timestamp[c] # excepted_timestamp[d]

\* C9: in the window, a signature that is valid for another (secret, timestamp, body)
\* than the one verified ends SignatureInvalidError.
C9_TamperIsSignatureInvalid ==
    \A c \in Calls :
        Done(c) /\ InWindow(c) =>
            \A tr \in Secrets \X Timestamps \X Bodies :
                /\ Utf8Valid(tr[3])
                /\ tr # <<access_token[c], timestamp[c], body[c]>>
                /\ signature[c] = CanonicalSignature(tr[1], tr[2], tr[3])
                => outcome[c] = "SignatureInvalidError"

\* the envelope's time has run out: the clock is past timestamp + 300
Expired(ts) == IntTime > ts + Window

\* C10: a call is accepted only on a clock value in [timestamp - 300, timestamp + 300];
\* once the clock is past timestamp + 300 it stays past it, a call that reads the clock
\* from then on reads a value past it, and a call that read such a value ends
\* TimestampOutOfRangeError.
C10_ReplayBounded ==
    [][\A c \in Calls :
        /\ (pc'[c] = "done" /\ outcome'[c] = "None" =>
                /\ timestamp'[c] - Window <= excepted_timestamp'[c]
                /\ excepted_timestamp'[c] <= timestamp'[c] + Window)
        /\ (\A ts \in Timestamps : Expired(ts) => Expired(ts)')
        /\ (pc[c] = "clock" /\ pc'[c] = "fresh" /\ Expired(timestamp[c]) =>
                excepted_timestamp'[c] > timestamp'[c] + Window)
        /\ (pc'[c] = "done" /\ excepted_timestamp'[c] > timestamp'[c] + Window =>
                outcome'[c] = "TimestampOutOfRangeError")]_vars

\* a correctly signed envelope was replayed after its time had run out and turned down
C10_Witness ==
    /\ Done(1) /\ Signed(1) /\ outcome[1] = "TimestampOutOfRangeError"
    /\ excepted_timestamp[1] > timestamp[1] + Window

-----------------------------------------------------------------------------
(* The client's verifier method (src/tgateway/client.py, lines 222-248) and  *)
(* the webhook endpoint built on it (src/examples/fastapi_webhook.py).      *)
(* The verifier runs as call 1 on behalf of the handler.                    *)

\* b'{"request_id":"1","phone_number":"+1","request_cost":0}'
ReportBody ==
    <<
       123, 34, 114, 101, 113, 117, 101, 115, 116, 95, 105, 100, 34, 58, 34,
       49, 34, 44, 34, 112, 104, 111, 110, 101, 95, 110, 117, 109, 98, 101,
       114, 34, 58, 34, 43, 49, 34, 44, 34, 114, 101, 113, 117, 101, 115,
       116, 95, 99, 111, 115, 116, 34, 58, 48, 125
    >>

\* RequestStatus.model_validate_json raises ValidationError: of the bodies of the
\* model only ReportBody is a JSON object with request_id, phone_number and request_cost
ParseFails(b) == b # ReportBody

\* b"{}" (JSON, but no RequestStatus), a report, and the ill-formed b"\xff"
HookBodies == {<<123, 125>>, ReportBody, <<255>>}

\* the requests sent to /webhook: signed by the holder of the token "m", or with a
\* malformed signature ("zz", "e-acute")
HookRequests ==
    UNION { { [timestamp |-> Window, signature |-> g, body |-> b] :
                g \in (IF Utf8Valid(b)
                       THEN {CanonicalSignature(<<109>>, Window, b)} ELSE {})
                      \cup {<<122, 122>>, <<233>>} } :
            b \in HookBodies }

\* the lifespan of the application has constructed the gateway, client 1
InitWebhook ==
    /\ InitVerifier
    /\ \E s \in Secrets :
          client_access_token = [k \in Clients |-> IF k = 1 THEN s ELSE <<>>]
    /\ session = [k \in Clients |-> IF k = 1 THEN "open" ELSE "none"]
    /\ posts = [k \in Clients |-> 0]
    /\ InitHook
    /\ InitRest

\* fastapi_webhook.py, lines 43-59: a request arrives, headers and body are read
Receive(r) ==
    /\ hpc = "idle"
    /\ hreq' = r
    /\ hpc' = "validate"
    /\ UNCHANGED <<verifierVars, clientVars, verdict, response, restVars>>

\* the Authorization header's value, f"Bearer {token}", passed for the token
GatewayTokenBearer(k) == <<66, 101, 97, 114, 101, 114, 32>> \o client_access_token[k]

\* client.py, line 244: access_token=self._access_token
GatewayToken(k) == client_access_token[k]

\* fastapi_webhook.py, lines 62-66, and client.py, lines 243-248:
\* gateway.validate_report_integrity(timestamp, signature, body) enters the verifier
GatewayValidate(k) ==
    /\ hpc = "validate"
    /\ Enter(1, <<GatewayToken(k), hreq.timestamp, hreq.signature, hreq.body>>)
    /\ hpc' = "validating"
    /\ UNCHANGED <<clientVars, hreq, verdict, response, restVars>>

\* SignatureInvalidError is logged and the request goes on to be parsed
HandlerStatusLenient(v) ==
    IF v = "TimestampOutOfRangeError" THEN 400
    ELSE IF v = "None" \/ v = "SignatureInvalidError" THEN 0
    ELSE 500

\* fastapi_webhook.py, lines 61-74: the status the try statement ends the request
\* with; 0 when the verifier returned and the handler goes on.  An exception that
\* is not caught leaves the handler, and the framework answers 500.
HandlerStatus(v) ==
    IF v = "TimestampOutOfRangeError" THEN 400
    ELSE IF v = "SignatureInvalidError" THEN 403
    ELSE IF v = "None" THEN 0
    ELSE 500

\* fastapi_webhook.py, lines 61-74: the verifier has returned or raised
Caught ==
    /\ hpc = "validating"
    /\ Leave(1)
    /\ verdict' = outcome[1]
    /\ IF HandlerStatus(outcome[1]) = 0
       THEN /\ hpc' = "parse"
            /\ UNCHANGED response
       ELSE /\ hpc' = "responded"
            /\ response' = HandlerStatus(outcome[1])
    /\ UNCHANGED <<clientVars, hreq, restVars>>

\* fastapi_webhook.py, lines 76-93
Parse ==
    /\ hpc = "parse"
    /\ response' = IF ParseFails(hreq.body) THEN 400 ELSE 200
    /\ hpc' = "responded"
    /\ UNCHANGED <<verifierVars, clientVars, hreq, verdict, restVars>>

\* the response has gone out
Respond ==
    /\ hpc = "responded"
    /\ hpc' = "idle"
    /\ hreq' = NoRequest
    /\ verdict' = "none yet"
    /\ response' = 0
    /\ UNCHANGED <<verifierVars, clientVars, restVars>>

\* client.py, lines 250-267: await self._session.close()
Aclose(k) ==
    /\ session[k] \in {"open", "closed"}
    /\ session' = [session EXCEPT ![k] = "closed"]
    /\ UNCHANGED <<verifierVars, client_access_token, posts, hookVars, restVars>>

\* the endpoint serving requests one at a time; the gateway may be closed at any moment
NextWebhook ==
    \/ Tick(ConcClockPoints)
    \/ \E r \in HookRequests : Receive(r)
    \/ GatewayValidate(1)
    \/ ReadClock(1)
    \/ CheckFresh(1)
    \/ Decode(1)
    \/ ComputeSignature(1)
    \/ Compare(1)
    \/ Caught
    \/ Parse
    \/ Respond
    \/ Aclose(1)

SpecWebhook == InitWebhook /\ [][NextWebhook]_vars

\* C11: a request is answered 400 when the verifier raised TimestampOutOfRangeError
\* and 403 when it raised SignatureInvalidError; the body is parsed only after the
\* verifier returned, a body that does not parse is answered 400, and 200 is answered
\* only when the verifier returned and the body parsed: never without a fresh
\* timestamp's correctly signed body.
C11_WebhookStatus ==
    /\ (hpc = "parse" => verdict = "None")
    /\ (hpc = "responded" =>
          /\ (verdict = "TimestampOutOfRangeError" => response = 400)
          /\ (verdict = "SignatureInvalidError" => response = 403)
          /\ (verdict = "None" =>
                response = IF ParseFails(hreq.body) THEN 400 ELSE 200)
          /\ (response = 200 =>
                /\ verdict = "None"
                /\ Utf8Valid(hreq.body)
                /\ hreq.signature = CanonicalSignature(client_access_token[1],
                                                       hreq.timestamp, hreq.body)))

\* a signed report was answered 200
C11_Witness == hpc = "responded" /\ response = 200 /\ verdict = "None"

\* C12: the client's validate_report_integrity ends as the verifier ends for the
\* client's own access token and the caller's timestamp, signature and body; no
\* statement of the call changes the client's token or session or sends a request,
\* and the session being open or closed makes no difference.
C12_ClientValidateDelegates ==
    [][/\ (pc'[1] # pc[1] => UNCHANGED <<client_access_token, session, posts>>)
       /\ (hpc' = "validating" /\ pc'[1] = "done" =>
              outcome'[1] = Verify(client_access_token'[1], hreq'.timestamp,
                                   hreq'.signature, hreq'.body,
                                   excepted_timestamp'[1]))]_vars

\* a report was accepted through a client whose session was already closed
C12_Witness ==
    /\ hpc = "validating" /\ pc[1] = "done" /\ outcome[1] = "None"
    /\ session[1] = "closed" /\ posts[1] = 0

-----------------------------------------------------------------------------
(* Error codes of the API (src/tgateway/exceptions.py) and the client's      *)
(* requests (src/tgateway/client.py, methods.py, types.py).                 *)

\* exceptions.py, lines 103-122: the registered codes, as pairs <<code, class>>
api_error_code_to_exception ==
    {
      <<<<65, 67, 67, 69, 83, 83, 95, 84, 79, 75, 69, 78, 95, 73, 78, 86, 65, 76, 73, 68>>,
        "AccessTokenInvalidError">>,
      <<<<65, 67, 67, 69, 83, 83, 95, 84, 79, 75, 69, 78, 95, 82, 69, 81, 85, 73, 82, 69, 68>>,
        "AccessTokenRequiredError">>,
      <<<<66, 65, 76, 65, 78, 67, 69, 95, 78, 79, 84, 95, 69, 78, 79, 85, 71, 72>>,
        "BalanceNotEnoughError">>,
      <<<<67, 65, 76, 76, 66, 65, 67, 75, 95, 85, 82, 76, 95, 73, 78, 86, 65, 76, 73, 68>>,
        "CallbackUrlInvalidError">>,
      <<<<67, 79, 68, 69, 95, 73, 78, 86, 65, 76, 73, 68>>,
        "CodeInvalidError">>,
      <<<<67, 79, 68, 69, 95, 76, 69, 78, 71, 84, 72, 95, 73, 78, 86, 65, 76, 73, 68>>,
        "CodeLengthInvalidError">>,
      <<<<67, 79, 68, 69, 95, 76, 69, 78, 71, 84, 72, 95, 82, 69, 81, 85, 73, 82, 69, 68>>,
        "CodeLengthRequiredError">>,
      <<<<80, 65, 89, 76, 79, 65, 68, 95, 73, 78, 86, 65, 76, 73, 68>>,
        "PayloadInvalidError">>,
      <<<<80, 72, 79, 78, 69, 95, 78, 85, 77, 66, 69, 82, 95, 73, 78, 86, 65, 76, 73, 68>>,
        "PhoneNumberInvalidError">>,
      <<<<80, 72, 79, 78, 69, 95, 78, 85, 77, 66, 69, 82, 95, 78, 79, 84, 95, 70, 79, 85, 78, 68>>,
        "PhoneNumberNotFoundError">>,
      <<<<82, 69, 81, 85, 69, 83, 84, 95, 73, 68, 95, 73, 78, 86, 65, 76, 73, 68>>,
        "RequestIdInvalidError">>,
      <<<<82, 69, 81, 85, 69, 83, 84, 95, 73, 68, 95, 82, 69, 81, 85, 73, 82, 69, 68>>,
        "RequestIdRequiredError">>,
      <<<<83, 69, 78, 68, 69, 82, 95, 78, 79, 84, 95, 79, 87, 78, 69, 68>>,
        "SenderNotOwnedError">>,
      <<<<83, 69, 78, 68, 69, 82, 95, 78, 79, 84, 95, 86, 69, 82, 73, 70, 73, 69, 68>>,
        "SenderNotVerifiedError">>,
      <<<<83, 69, 78, 68, 69, 82, 95, 85, 83, 69, 82, 78, 65, 77, 69, 95, 73, 78, 86, 65, 76, 73, 68>>,
        "SenderUsernameInvalidError">>,
      <<<<84, 84, 76, 95, 73, 78, 86, 65, 76, 73, 68>>,
        "TtlInvalidError">>,
      <<<<85, 78, 75, 78, 79, 87, 78, 95, 77, 69, 84, 72, 79, 68>>,
        "UnknownMethodError">>,
      <<<<70, 76, 79, 79, 68, 95, 87, 65, 73, 84, 95, 37, 100>>,
        "FloodWaitError">>
    }

\* "FLOOD_WAIT_"
FloodWaitPrefix == <<70, 76, 79, 79, 68, 95, 87, 65, 73, 84, 95>>

\* str.startswith and str.removeprefix
StartsWith(s, p) == Len(s) >= Len(p) /\ SubSeq(s, 1, Len(p)) = p
RemovePrefix(s, p) == IF StartsWith(s, p) THEN SubSeq(s, Len(p) + 1, Len(s)) ELSE s

\* int(str): white space around the number is dropped, a sign may lead, and the
\* digits (of any decimal script; here ASCII and Arabic-Indic) may be grouped by
\* single underscores; anything else raises ValueError
IsSpace(c) == c \in {9, 10, 11, 12, 13, 28, 29, 30, 31, 32, 133, 160}

RECURSIVE LStrip(_)
LStrip(s) == IF s # <<>> /\ IsSpace(Head(s)) THEN LStrip(Tail(s)) ELSE s

RECURSIVE RStrip(_)
RStrip(s) ==
    IF s # <<>> /\ IsSpace(s[Len(s)]) THEN RStrip(SubSeq(s, 1, Len(s) - 1)) ELSE s

Strip(s) == RStrip(LStrip(s))

DigitValue(c) ==
    IF c \in 48..57 THEN c - 48
    ELSE IF c \in 1632..1641 THEN c - 1632
    ELSE -1

Unsigned(s) == IF s # <<>> /\ Head(s) \in {43, 45} THEN Tail(s) ELSE s

IsDigits(d) ==
    /\ d # <<>>
    /\ \A i \in 1..Len(d) :
          \/ DigitValue(d[i]) >= 0
          \/ /\ d[i] = 95
             /\ 1 < i
             /\ i < Len(d)
             /\ DigitValue(d[i - 1]) >= 0
             /\ DigitValue(d[i + 1]) >= 0

RECURSIVE DigitsValue(_, _)
DigitsValue(d, acc) ==
    IF d = <<>> THEN acc
    ELSE IF Head(d) = 95 THEN DigitsValue(Tail(d), acc)
    ELSE DigitsValue(Tail(d), 10 * acc + DigitValue(Head(d)))

ParseIntRaises(s) == ~IsDigits(Unsigned(Strip(s)))

ParseInt(s) ==
    LET t == Strip(s)
        n == DigitsValue(Unsigned(t), 0)
    IN  IF t # <<>> /\ Head(t) = 45 THEN -n ELSE n

\* an exception object of the given class, returned to the caller
Exception(class, error_code, endpoint, value) ==
    [how |-> "return", class |-> class, client |-> 0, error_code |-> error_code,
     endpoint |-> endpoint, value |-> value]

\* an exception of the given class is raised
Raised(class) == [NoResult EXCEPT !.how = "raise", !.class = class]

\* exceptions.py, line 136: api_error_code_to_exception.get(error_code, TelegramGatewayAPIError)
RegisteredClass(error_code) ==
    IF \E e \in api_error_code_to_exception : e[1] = error_code
    THEN (CHOOSE e \in api_error_code_to_exception : e[1] = error_code)[2]
    ELSE "TelegramGatewayAPIError"

\* exceptions.py, lines 125-137
validate_telegram_gateway_api_error(error_code, endpoint) ==
    IF StartsWith(error_code, FloodWaitPrefix)
    THEN IF ParseIntRaises(RemovePrefix(error_code, FloodWaitPrefix))
         THEN Raised("ValueError")
         ELSE Exception("FloodWaitError", error_code, endpoint,
                        ParseInt(RemovePrefix(error_code, FloodWaitPrefix)))
    ELSE Exception(RegisteredClass(error_code), error_code, endpoint, 0)

\* exceptions.py, lines 20-100: TelegramGatewayAPIError and its subclasses
APIErrorClasses ==
    {"TelegramGatewayAPIError"} \cup {e[2] : e \in api_error_code_to_exception}

-----------------------------------------------------------------------------
(* The fields of a SendVerificationMessage and its validator                *)
(* (src/tgateway/methods.py, lines 69-109)                                  *)

\* src/tgateway/constants.py
CODE_LENGTH_MIN == 4
CODE_LENGTH_MAX == 8
PAYLOAD_LENGTH_MIN == 0
PAYLOAD_LENGTH_MAX == 128
TTL_MIN == 60
TTL_MAX == 86400

\* the str of n characters c
Repeat(c, n) == [i \in 1..n |-> c]

\* "https" and "http:"
Https == <<104, 116, 116, 112, 115>>
HttpColon == <<104, 116, 116, 112, 58>>

\* an optional argument: absent (None; the model keeps the default v in its place)
\* or one of the values
Optional(v, values) ==
    {[has |-> FALSE, v |-> v]} \cup {[has |-> TRUE, v |-> x] : x \in values}

\* the arguments tried: a field is absent or takes a value at or next to a limit;
\* codes are of the digit "1", payloads of "a" (one byte in UTF-8) or of e-acute
\* (two bytes)
Kwargs ==
    { [code |-> c.v, has_code |-> c.has,
       code_length |-> l.v, has_code_length |-> l.has,
       callback_url |-> u.v, has_callback_url |-> u.has,
       payload |-> p.v, has_payload |-> p.has,
       ttl |-> t.v, has_ttl |-> t.has] :
         c \in Optional(<<>>, {Repeat(49, n) :
                 n \in {0, CODE_LENGTH_MIN - 1, CODE_LENGTH_MIN, CODE_LENGTH_MAX,
                        CODE_LENGTH_MAX + 1}}),
         l \in Optional(0, {0, CODE_LENGTH_MIN - 1, CODE_LENGTH_MIN, CODE_LENGTH_MAX,
                            CODE_LENGTH_MAX + 1}),
         u \in Optional(<<>>, {<<>>, Https, HttpColon}),
         p \in Optional(<<>>, {Repeat(ch, n) :
                 ch \in {97, 233},
                 n \in {0, PAYLOAD_LENGTH_MAX \div 2, PAYLOAD_LENGTH_MAX \div 2 + 1,
                        PAYLOAD_LENGTH_MAX, PAYLOAD_LENGTH_MAX + 1}}),
         t \in Optional(0, {0, TTL_MIN - 1, TTL_MIN, TTL_MAX, TTL_MAX + 1}) }

\* the validator tests code_length also when a code is set
ValidatorBoth(kw) ==
    IF kw.has_code /\ ~(CODE_LENGTH_MIN <= Len(kw.code) /\ Len(kw.code) <= CODE_LENGTH_MAX)
    THEN "ValidationCodeLengthError: code"
    ELSE IF kw.has_code_length
            /\ ~(CODE_LENGTH_MIN <= kw.code_length /\ kw.code_length <= CODE_LENGTH_MAX)
    THEN "ValidationCodeLengthError: code_length"
    ELSE IF ~kw.has_code /\ ~kw.has_code_length THEN "ValidationError"
    ELSE "constructed"

\* methods.py, lines 86-109: _validator.  A ValueError raised in a validator is
\* turned into pydantic's ValidationError; ValidationCodeLengthError is no
\* ValueError and leaves the constructor as it is.  len() of a str counts characters.
Validator(kw) ==
    IF kw.has_code /\ ~(CODE_LENGTH_MIN <= Len(kw.code) /\ Len(kw.code) <= CODE_LENGTH_MAX)
    THEN "ValidationCodeLengthError: code"
    ELSE IF ~kw.has_code /\ kw.has_code_length
            /\ ~(CODE_LENGTH_MIN <= kw.code_length /\ kw.code_length <= CODE_LENGTH_MAX)
    THEN "ValidationCodeLengthError: code_length"
    ELSE IF ~kw.has_code /\ ~kw.has_code_length THEN "ValidationError"
    ELSE IF ~(~kw.has_callback_url \/ StartsWith(kw.callback_url, Https))
    THEN "ValidationError"
    ELSE IF ~(\/ ~kw.has_payload
              \/ /\ PAYLOAD_LENGTH_MIN <= Len(kw.payload)
                 /\ Len(kw.payload) <= PAYLOAD_LENGTH_MAX)
    THEN "ValidationError"
    ELSE IF ~(~kw.has_ttl \/ (TTL_MIN <= kw.ttl /\ kw.ttl <= TTL_MAX))
    THEN "ValidationError"
    ELSE "constructed"

\* the code's length is in range
CodeInRange(kw) == CODE_LENGTH_MIN <= Len(kw.code) /\ Len(kw.code) <= CODE_LENGTH_MAX

\* the code_length is in range
CodeLengthInRange(kw) ==
    CODE_LENGTH_MIN <= kw.code_length /\ kw.code_length <= CODE_LENGTH_MAX

-----------------------------------------------------------------------------
(* The task using the clients *)

\* the requests a client may have sent in all before the task stops sending
MaxPosts == 2

\* the four methods of the API, by __api_method__
ApiMethods ==
    {"sendVerificationMessage", "checkSendAbility", "checkVerificationStatus",
     "revokeVerificationMessage"}

\* methods.py, lines 66, 127, 144, 172: __returning__
Returning(api) == IF api = "revokeVerificationMessage" THEN "bool" ELSE "RequestStatus"

\* the delivery_status.status of a RequestStatus ("sent" and "revoked" of
\* enums.py's DeliveryStatusEnum), and None for one without delivery_status
DeliveryStatuses == {"None", "sent", "revoked"}

\* error codes a response may carry: "CODE_INVALID", an unregistered "NEW_ERROR",
\* "FLOOD_WAIT_42", "FLOOD_WAIT_%d" and "FLOOD_WAIT_"
ErrorCodes ==
    { <<67, 79, 68, 69, 95, 73, 78, 86, 65, 76, 73, 68>>,
      <<78, 69, 87, 95, 69, 82, 82, 79, 82>>,
      FloodWaitPrefix \o <<52, 50>>,
      FloodWaitPrefix \o <<37, 100>>,
      FloodWaitPrefix }

\* the TelegramGatewayResult documents the API may answer a method with: a result of
\* the method's type, no result, or an error
Responses(api) ==
    { [has_error |-> FALSE, error |-> <<>>, result |-> Returning(api),
       delivery_status |-> d] :
         d \in (IF Returning(api) = "RequestStatus" THEN DeliveryStatuses ELSE {"None"}) }
    \cup { [has_error |-> FALSE, error |-> <<>>, result |-> "None",
            delivery_status |-> "None"] }
    \cup { [has_error |-> TRUE, error |-> e, result |-> "None",
            delivery_status |-> "None"] : e \in ErrorCodes }

\* client.py, lines 103-109: what make_request of client k gives for method m once
\* make_request_raw has returned the box b (a RequestStatus is bound to k by the
\* validation context of line 85)
make_request(k, m, b) ==
    IF ~b.has_error
    THEN [NoResult EXCEPT !.how = "return", !.class = b.result,
                          !.client = IF b.result = "RequestStatus" THEN k ELSE 0]
    ELSE [validate_telegram_gateway_api_error(b.error, m.api) EXCEPT !.how = "raise"]

RECURSIVE SentBy(_)
SentBy(n) == IF n = 0 THEN 0 ELSE posts[n] + SentBy(n - 1)

\* all requests sent so far
Sent == SentBy(MaxClients)

\* client.py, lines 34-49: TelegramGateway(access_token) opens the session
Construct(k) ==
    /\ rpc = "idle"
    /\ session[k] = "none"
    /\ client_access_token' = [client_access_token EXCEPT ![k] = <<109>>]
    /\ session' = [session EXCEPT ![k] = "open"]
    /\ scope' = [scope EXCEPT ![k] = "plain"]
    /\ UNCHANGED <<verifierVars, posts, hookVars, rpc, gateway, method, box, result,
                   status, methodVars, canonVars>>

\* client.py, lines 269-280: `async with gateway:` is entered
Aenter(k) ==
    /\ rpc = "idle"
    /\ scope[k] = "plain"
    /\ scope' = [scope EXCEPT ![k] = "with"]
    /\ UNCHANGED <<verifierVars, clientVars, hookVars, rpc, gateway, method, box,
                   result, status, methodVars, canonVars>>

\* the block is left only when its body went well
AexitOnSuccess(k) ==
    /\ rpc \in {"idle", "raised"}
    /\ scope[k] = "with"
    /\ scope' = [scope EXCEPT ![k] = "left"]
    /\ session' = [session EXCEPT ![k] = IF rpc = "idle" THEN "closed" ELSE @]
    /\ UNCHANGED <<verifierVars, client_access_token, posts, hookVars, rpc, gateway,
                   method, box, result, status, methodVars, canonVars>>

\* client.py, lines 282-288: the block is left, normally (rpc = "idle") or by an
\* exception (rpc = "raised"); __aexit__ closes the session and returns None, so
\* the exception goes on
Aexit(k) ==
    /\ rpc \in {"idle", "raised"}
    /\ scope[k] = "with"
    /\ scope' = [scope EXCEPT ![k] = "left"]
    /\ session' = [session EXCEPT ![k] = "closed"]
    /\ UNCHANGED <<verifierVars, client_access_token, posts, hookVars, rpc, gateway,
                   method, box, result, status, methodVars, canonVars>>

\* client.py, lines 111-220: gateway.send_verification_message(...) and the three
\* other request methods construct the method object and call self.make_request
Call(k, api) ==
    /\ rpc = "idle"
    /\ session[k] # "none"
    /\ session[k] = "open" => Sent < MaxPosts
    /\ method' = [api |-> api, client |-> 0]
    /\ gateway' = k
    /\ rpc' = "emit"
    /\ ForgetChain
    /\ UNCHANGED <<verifierVars, clientVars, hookVars, scope, box, result, status,
                   canonVars>>

\* a RequestStatus parsed from a report (fastapi_webhook.py, line 77): there is no
\* validation context, so it is bound to no client
FromReport(d) ==
    /\ rpc = "idle"
    /\ ~status.held
    /\ status' = [held |-> TRUE, client |-> 0, delivery_status |-> d]
    /\ UNCHANGED <<verifierVars, clientVars, hookVars, scope, rpc, gateway, method, box,
                   result, methodVars, canonVars>>

\* send is not guarded, and revoke only against a RequestStatus without
\* delivery_status
ChainRaisesUndelivered(op, s) ==
    op = "revokeVerificationMessage" /\ s.delivery_status = "None"

\* types.py, lines 110-156: whether status.send(), .check(), .revoke() raises ValueError
ChainRaises(op, s) ==
    \/ op = "sendVerificationMessage" /\ s.delivery_status # "None"
    \/ op = "revokeVerificationMessage" /\ s.delivery_status \in {"None", "revoked"}

\* methods.py, lines 151-159: CheckVerificationStatus._validator
CheckValidator(kw) ==
    IF kw.has_code /\ ~CodeInRange(kw) THEN "ValidationCodeLengthError: code"
    ELSE "constructed"

\* how the construction of the method object of op from the arguments kw ends:
\* SendVerificationMessage and CheckVerificationStatus run their validators,
\* RevokeVerificationMessage has none
Construction(op, kw) ==
    IF op = "sendVerificationMessage" THEN Validator(kw)
    ELSE IF op = "checkVerificationStatus" THEN CheckValidator(kw)
    ELSE "constructed"

\* the arguments the task calls send, check and revoke with: none; for send a
\* code_length of 4 or a code of 3 characters; for check a code of 4 or of 3
\* characters
ChainKwargs(op) ==
    IF op = "sendVerificationMessage"
    THEN {NoKwargs,
          [NoKwargs EXCEPT !.has_code_length = TRUE, !.code_length = CODE_LENGTH_MIN],
          [NoKwargs EXCEPT !.has_code = TRUE, !.code = Repeat(49, CODE_LENGTH_MIN - 1)]}
    ELSE IF op = "checkVerificationStatus"
    THEN {NoKwargs,
          [NoKwargs EXCEPT !.has_code = TRUE, !.code = Repeat(49, CODE_LENGTH_MIN)],
          [NoKwargs EXCEPT !.has_code = TRUE, !.code = Repeat(49, CODE_LENGTH_MIN - 1)]}
    ELSE {NoKwargs}

\* types.py, lines 110-156: status.send(...), .check(...), .revoke(): the guard on
\* delivery_status raises ValueError; else the method object is constructed from
\* the arguments, which may raise in its validator, and bound with
\* .as_(self._client)
Chain(op, kw) ==
    /\ rpc = "idle"
    /\ status.held
    /\ chained' = op
    /\ kwargs' = kw
    /\ IF ChainRaises(op, status)
       THEN /\ rpc' = "raised"
            /\ result' = Raised("ValueError")
            /\ constructed' = "none yet"
            /\ UNCHANGED method
       ELSE /\ constructed' = Construction(op, kw)
            /\ IF Construction(op, kw) = "constructed"
               THEN /\ method' = [api |-> op, client |-> status.client]
                    /\ UNCHANGED <<rpc, result>>
               ELSE /\ rpc' = "raised"
                    /\ result' = Raised(Construction(op, kw))
                    /\ UNCHANGED method
    /\ UNCHANGED <<verifierVars, clientVars, hookVars, scope, gateway, box, status,
                   canonVars>>

\* the method object is emitted through the first client, whatever it is bound to
AwaitThroughFirst ==
    /\ rpc = "idle"
    /\ method.api # "none"
    /\ IF method.client = 0
       THEN /\ rpc' = "raised"
            /\ result' = Raised("RuntimeError")
            /\ UNCHANGED gateway
       ELSE /\ session[method.client] = "open" => Sent < MaxPosts
            /\ session[1] = "open" => Sent < MaxPosts
            /\ session[1] # "none"
            /\ gateway' = 1
            /\ rpc' = "emit"
            /\ UNCHANGED result
    /\ ForgetChain
    /\ UNCHANGED <<verifierVars, clientVars, hookVars, scope, method, box, status,
                   canonVars>>

\* methods.py, lines 41-53: `await method`: RuntimeError when the method object is
\* bound to no client, else self.emit(self._client), that is
\* self._client.make_request(self)
Await ==
    /\ rpc = "idle"
    /\ method.api # "none"
    /\ IF method.client = 0
       THEN /\ rpc' = "raised"
            /\ result' = Raised("RuntimeError")
            /\ UNCHANGED gateway
       ELSE /\ session[method.client] = "open" => Sent < MaxPosts
            /\ gateway' = method.client
            /\ rpc' = "emit"
            /\ UNCHANGED result
    /\ ForgetChain
    /\ UNCHANGED <<verifierVars, clientVars, hookVars, scope, method, box, status,
                   canonVars>>

\* client.py, lines 73-83: make_request_raw of the client in `gateway` dumps the
\* method and posts it through self._session; a closed session raises
\* RuntimeError("Session is closed") and sends nothing
MakeRequestRaw ==
    /\ rpc = "emit"
    /\ IF session[gateway] = "open"
       THEN /\ posts' = [posts EXCEPT ![gateway] = @ + 1]
            /\ rpc' = "awaiting"
            /\ UNCHANGED <<gateway, method, result>>
       ELSE /\ rpc' = "raised"
            /\ gateway' = 0
            /\ result' = Raised("RuntimeError")
            /\ method' = IF method.client = 0 THEN NoMethod ELSE method
            /\ UNCHANGED posts
    /\ UNCHANGED <<verifierVars, client_access_token, session, hookVars, scope, box,
                   status, methodVars, canonVars>>

\* client.py, lines 84-86 and 103-109: the response is read and decoded, and
\* make_request returns its result or raises its error
Reply(b) ==
    /\ rpc = "awaiting"
    /\ box' = b
    /\ result' = make_request(gateway, method, b)
    /\ status' = IF ~b.has_error /\ b.result = "RequestStatus"
                 THEN [held |-> TRUE, client |-> gateway,
                       delivery_status |-> b.delivery_status]
                 ELSE status
    /\ rpc' = IF b.has_error THEN "raised" ELSE "returned"
    /\ method' = NoMethod
    /\ gateway' = 0
    /\ UNCHANGED <<verifierVars, clientVars, hookVars, scope, methodVars, canonVars>>

\* the task goes on with what the call or await returned
Resume ==
    /\ rpc = "returned"
    /\ rpc' = "idle"
    /\ box' = NoBox
    /\ result' = NoResult
    /\ UNCHANGED <<verifierVars, clientVars, hookVars, scope, gateway, method, status,
                   methodVars, canonVars>>

\* the task's try/except catches the exception
Catch ==
    /\ rpc = "raised"
    /\ rpc' = "idle"
    /\ box' = NoBox
    /\ result' = NoResult
    /\ ForgetChain
    /\ UNCHANGED <<verifierVars, clientVars, hookVars, scope, gateway, method, status,
                   canonVars>>

\* one task using the clients: constructing and closing them, calling their request
\* methods and following the fluent chain of the results
NextClient ==
    \/ \E k \in Clients : Construct(k)
    \/ \E k \in Clients : Aenter(k)
    \/ \E k \in Clients : Aexit(k)
    \/ \E k \in Clients : rpc \in {"idle", "raised"} /\ Aclose(k)
    \/ \E k \in Clients, api \in ApiMethods : Call(k, api)
    \/ \E d \in DeliveryStatuses : FromReport(d)
    \/ \E op \in ApiMethods \ {"checkSendAbility"} : \E kw \in ChainKwargs(op) : Chain(op, kw)
    \/ Await
    \/ MakeRequestRaw
    \/ \E b \in Responses(method.api) : Reply(b)
    \/ Resume
    \/ Catch

SpecClient == Init /\ [][NextClient]_vars

\* the class the API's documentation of an error code calls for: FloodWaitError for
\* the FLOOD_WAIT_ family, else the registered class, else the base class
ExpectedClass(error_code) ==
    IF StartsWith(error_code, FloodWaitPrefix) THEN "FloodWaitError"
    ELSE RegisteredClass(error_code)

\* C13: make_request returns the decoded result exactly when the response carries no
\* error; when the response carries an error code it raises a TelegramGatewayAPIError
\* of the class registered for the code (the base class for an unregistered code)
\* with the response's error as error_code and the method's API method name as
\* endpoint, and returns nothing.
C13_MakeRequestResult ==
    [][rpc = "awaiting" /\ rpc' # "awaiting" =>
          /\ (result'.how = "return" <=> ~box'.has_error)
          /\ (~box'.has_error => result'.class = box'.result)
          /\ (box'.has_error =>
                /\ result'.how = "raise"
                /\ result'.class \in APIErrorClasses
                /\ result'.class = ExpectedClass(box'.error)
                /\ result'.error_code = box'.error
                /\ result'.endpoint = method.api)]_vars

\* C20: for every error code that starts with FLOOD_WAIT_,
\* validate_telegram_gateway_api_error returns a FloodWaitError whose value is the
\* integer of the suffix (42 for FLOOD_WAIT_42) and whose error_code and endpoint are
\* the arguments, whatever the suffix is; make_request raises that very object.
C20_FloodWaitForEverySuffix ==
    [][rpc = "awaiting" /\ box'.has_error /\ StartsWith(box'.error, FloodWaitPrefix) =>
          LET e == validate_telegram_gateway_api_error(box'.error, method.api)
          IN  /\ e.how = "return"
              /\ e.class = "FloodWaitError"
              /\ e.error_code = box'.error
              /\ e.endpoint = method.api
              /\ (box'.error = FloodWaitPrefix \o <<52, 50>> => e.value = 42)
              /\ result' = [e EXCEPT !.how = "raise"]]_vars

\* C16: a client's session is opened by the construction and stays open until aclose
\* is called or the `async with` block is left; leaving the block closes it, after a
\* body that finished and after one that raised alike, and the exception goes on;
\* a closed session is never reopened, a request is in flight only on an open
\* session, and a request attempted on a closed session sends nothing and raises.
C16_SessionLifecycle ==
    [][\A k \in Clients :
          /\ (session[k] = "none" /\ session'[k] # "none" =>
                session'[k] = "open" /\ scope'[k] = "plain")
          /\ (session[k] = "open" /\ session'[k] # "open" =>
                /\ session'[k] = "closed"
                /\ \/ scope[k] = "with" /\ scope'[k] = "left"
                   \/ UNCHANGED <<scope, rpc, gateway, method, box, result, status, posts>>)
          /\ (scope[k] = "with" /\ scope'[k] = "left" =>
                /\ session'[k] = "closed"
                /\ UNCHANGED <<rpc, result>>)
          /\ (session[k] = "closed" =>
                /\ session'[k] = "closed"
                /\ posts'[k] = posts[k]
                /\ gateway # k \/ rpc = "emit"
                /\ (rpc = "emit" /\ gateway = k =>
                      /\ rpc' = "raised"
                      /\ result' = Raised("RuntimeError")))
          /\ (result'.how = "return" /\ result # result' => session[gateway] = "open")]_vars

\* a block was left by an API error: its session is closed and the error still
\* in flight
C16_Witness ==
    \E k \in Clients :
        /\ scope[k] = "left"
        /\ session[k] = "closed"
        /\ posts[k] > 0
        /\ rpc = "raised"
        /\ result.class \in APIErrorClasses

\* C17 as stated: a RequestStatus returned through client C is bound to C, the method
\* objects it produces are bound to the same C, and awaiting such a method object
\* issues exactly one request through C and yields a result again bound to C.
C17_ChainBindingAsStated ==
    [][/\ (rpc = "awaiting" /\ result'.class = "RequestStatus" =>
              result'.client = gateway /\ status'.client = gateway)
       /\ (rpc = "idle" /\ rpc' = "idle" /\ method' # method =>
              method'.client = status.client)
       /\ (rpc = "idle" /\ rpc' = "emit" /\ method.client # 0 /\ method' = method =>
              gateway' = method.client)
       /\ (rpc = "emit" /\ method.client # 0 =>
              /\ gateway = method.client
              /\ posts' = [posts EXCEPT ![gateway] = @ + 1])
       /\ (rpc = "awaiting" /\ method.client # 0 /\ rpc' # "awaiting" =>
              result'.how = "return" /\ result'.client = method.client)]_vars

\* C17, amended: the binding is preserved along the chain, and awaiting a method
\* object bound to C goes through C and nothing else: with C's session open it sends
\* exactly one request, through C; with C closed it sends none and raises; of what
\* the request yields a RequestStatus is bound to C, while a bool (revoke) and a
\* missing result are bound to nothing and an error response yields none.
C17_ChainBinding ==
    [][/\ (rpc = "awaiting" /\ result'.class = "RequestStatus" =>
              result'.client = gateway /\ status'.client = gateway)
       /\ (rpc = "idle" /\ rpc' = "idle" /\ method' # method =>
              method'.client = status.client)
       /\ (rpc = "idle" /\ rpc' = "emit" /\ method.client # 0 /\ method' = method =>
              gateway' = method.client)
       /\ (rpc = "emit" /\ method.client # 0 =>
              /\ gateway = method.client
              /\ posts' = IF session[gateway] = "open"
                          THEN [posts EXCEPT ![gateway] = @ + 1]
                          ELSE posts
              /\ (session[gateway] # "open" => rpc' = "raised"))
       /\ (rpc = "awaiting" /\ method.client # 0 /\ rpc' # "awaiting" =>
              /\ (result'.how = "return" <=> ~box'.has_error)
              /\ result'.client = IF result'.class = "RequestStatus"
                                  THEN method.client ELSE 0)]_vars

\* a chain through the second client: a method object made from a RequestStatus
\* bound to client 2 was awaited and yielded a RequestStatus, bound to client 2,
\* while client 1 has sent nothing
C17_Witness ==
    /\ rpc = "returned"
    /\ result.class = "RequestStatus"
    /\ result.client = 2
    /\ status.client = 2
    /\ posts[2] > 1
    /\ posts[1] = 0
    /\ session[1] = "open"

-----------------------------------------------------------------------------
(* Construction of a SendVerificationMessage (src/tgateway/methods.py,       *)
(* lines 56-109): the fields are set and the model validator runs.          *)

\* the arguments of a SendVerificationMessage(...) call are chosen
InitConstruction ==
    /\ InitVerifier
    /\ InitClient
    /\ InitHook
    /\ InitTask
    /\ InitCanon
    /\ kwargs \in Kwargs
    /\ constructed = "none yet"
    /\ chained = "none"

\* methods.py, lines 56-109, called at client.py, lines 145-154 and types.py,
\* lines 124-133: SendVerificationMessage(**kwargs)
SendVerificationMessage ==
    /\ constructed = "none yet"
    /\ constructed' = Validator(kwargs)
    /\ UNCHANGED <<verifierVars, clientVars, hookVars, taskVars, kwargs, chained, canonVars>>

NextConstruction == SendVerificationMessage

SpecConstruction == InitConstruction /\ [][NextConstruction]_vars

\* C14: a constructed SendVerificationMessage has a code of 4 to 8 characters, or no
\* code and a code_length of 4 to 8; construction with neither fails; with a code
\* set the outcome is the same as without code_length, whatever code_length is; an
\* out-of-range code raises ValidationCodeLengthError for code, and without a code
\* an out-of-range code_length raises it for code_length.
C14_CodeOrCodeLength ==
    constructed # "none yet" =>
        /\ (constructed = "constructed" =>
              \/ kwargs.has_code /\ CodeInRange(kwargs)
              \/ ~kwargs.has_code /\ kwargs.has_code_length /\ CodeLengthInRange(kwargs))
        /\ (~kwargs.has_code /\ ~kwargs.has_code_length => constructed = "ValidationError")
        /\ (kwargs.has_code =>
              constructed = Validator([kwargs EXCEPT !.has_code_length = FALSE,
                                                     !.code_length = 0]))
        /\ (kwargs.has_code /\ ~CodeInRange(kwargs) =>
              constructed = "ValidationCodeLengthError: code")
        /\ (~kwargs.has_code /\ kwargs.has_code_length /\ ~CodeLengthInRange(kwargs) =>
              constructed = "ValidationCodeLengthError: code_length")
        /\ (constructed = "ValidationCodeLengthError: code" =>
              kwargs.has_code /\ ~CodeInRange(kwargs))
        /\ (constructed = "ValidationCodeLengthError: code_length" =>
              ~kwargs.has_code /\ kwargs.has_code_length /\ ~CodeLengthInRange(kwargs))

\* a message with a code of 4 characters and a code_length of 9 was constructed
C14_Witness ==
    /\ constructed = "constructed"
    /\ kwargs.has_code
    /\ Len(kwargs.code) = CODE_LENGTH_MIN
    /\ kwargs.has_code_length
    /\ kwargs.code_length = CODE_LENGTH_MAX + 1

\* C15: a constructed SendVerificationMessage has no payload or one whose UTF-8
\* encoding is 0 to 128 bytes long, for payloads of one-byte and of two-byte
\* characters alike.
C15_PayloadBytes ==
    constructed = "constructed" /\ kwargs.has_payload =>
        /\ PAYLOAD_LENGTH_MIN <= Len(Utf8Encode(kwargs.payload))
        /\ Len(Utf8Encode(kwargs.payload)) <= PAYLOAD_LENGTH_MAX

-----------------------------------------------------------------------------
(* Order of the checks in validate_report_integrity *)

\* call c has not decoded the body nor computed a key or a signature
NoSignatureWork(c) ==
    /\ post_body[c] = <<>>
    /\ data_check_string[c] = <<>>
    /\ secret_key[c] = <<>>
    /\ excepted_signature[c] = <<>>

\* C18: the freshness check comes first and short-circuits: a call stands at the
\* decoding, the signature computation or the comparison only with a clock value
\* within the window, and a call with a timestamp outside the window ends
\* TimestampOutOfRangeError whatever its signature and body are, without having
\* decoded the body or computed a key, a canonical string or a signature.
C18_FreshnessShortCircuits ==
    \A c \in Calls :
        /\ (pc[c] \in {"decode", "sign", "compare"} => InWindow(c))
        /\ (Done(c) /\ ~InWindow(c) =>
              /\ outcome[c] = "TimestampOutOfRangeError"
              /\ NoSignatureWork(c))
        /\ (Done(c) /\ outcome[c] # "TimestampOutOfRangeError" => InWindow(c))

\* a call outside the window with an ill-formed body and a signature that is not
\* ASCII ended TimestampOutOfRangeError
C18_Witness ==
    /\ Done(1)
    /\ ~InWindow(1)
    /\ ~Utf8Valid(body[1])
    /\ ~IsAscii(signature[1])
    /\ outcome[1] = "TimestampOutOfRangeError"
    /\ NoSignatureWork(1)

-----------------------------------------------------------------------------
(* The canonical string of line 30 as a function of (timestamp, decoded body) *)

\* longest decoded body of the pairs compared
MaxTextLen == 2

\* the characters of the bodies compared: "1", the newline and "-"
TextAlphabet == {49, 10, 45}

\* the decoded bodies compared: every text over the alphabet up to the bound
Texts == UNION {[1..n -> TextAlphabet] : n \in 0..MaxTextLen}

\* the timestamps compared: of one and two digits, negative ones among them
CanonTimestamps == {-11, -1, 0, 1, 11}

\* the pairs (timestamp, decoded body)
CanonPairs == [timestamp : CanonTimestamps, body : Texts]

\* two pairs are chosen
InitCanonical ==
    /\ InitVerifier
    /\ InitClient
    /\ InitHook
    /\ InitTask
    /\ InitMethods
    /\ canon_in \in CanonPairs \X CanonPairs
    /\ canon_out = <<>>

\* integrity.py, line 30: the canonical string of either pair is built
BuildCanonical ==
    /\ canon_out = <<>>
    /\ canon_out' = <<DataCheckString(canon_in[1].timestamp, canon_in[1].body),
                      DataCheckString(canon_in[2].timestamp, canon_in[2].body)>>
    /\ UNCHANGED <<verifierVars, clientVars, hookVars, taskVars, methodVars, canon_in>>

NextCanonical == BuildCanonical

SpecCanonical == InitCanonical /\ [][NextCanonical]_vars

\* C19: two pairs (timestamp, decoded body) with the same canonical string are the
\* same pair: pairs that differ in the timestamp or in the body have different
\* canonical strings, also for bodies that start with digits or contain newlines
\* and for negative timestamps.
C19_CanonicalInjective ==
    canon_out # <<>> =>
        (canon_out[1] = canon_out[2] => canon_in[1] = canon_in[2])

\* (1, "1") and (11, ""), which differ only in where the digits stand, and
\* their two canonical strings "1\n1" and "11\n"
C19_Witness ==
    /\ canon_out # <<>>
    /\ canon_in[1] = [timestamp |-> 1, body |-> <<49>>]
    /\ canon_in[2] = [timestamp |-> 11, body |-> <<>>]
    /\ canon_out[1] = <<49, 10, 49>>
    /\ canon_out[2] = <<49, 49, 10>>

-----------------------------------------------------------------------------
(* The guards of RequestStatus.send, .check and .revoke (types.py, 110-156) *)

\* the step is a call of send, check or revoke on the RequestStatus held
ChainStep == rpc = "idle" /\ chained' # "none" /\ methodVars' # methodVars

\* that call yields a method object (rather than raising)
Yields == rpc' = "idle" /\ method'.api = chained' /\ method'.client = status.client

\* that call raises the ValueError of a guard: no method object was constructed
GuardRaises ==
    rpc' = "raised" /\ result'.class = "ValueError" /\ constructed' = "none yet"

\* that call issues no request and leaves the RequestStatus and the clients as
\* they are
ReadsSnapshotOnly ==
    /\ rpc' \in {"idle", "raised"}
    /\ UNCHANGED <<status, posts, session, scope, client_access_token, gateway, box>>

\* send() and revoke() are never both permitted on the RequestStatus held
GuardsExclusive ==
    status.held =>
        \/ ChainRaises("sendVerificationMessage", status)
        \/ ChainRaises("revokeVerificationMessage", status)

====
